---- MODULE Spec2Model ----
(***************************************************************************)
(* Model of daisy's block scheduler (daisy/scheduler.py): TaskState,       *)
(* TaskBlocks and Scheduler.  DependencyGraph and ReadySurface are         *)
(* collaborators whose code lives in other modules of the package; they    *)
(* are modelled from their documented contract.                            *)
(***************************************************************************)
EXTENDS Integers, Sequences, FiniteSets, TLC

\* ------------------------------------------------------------------ bounds
\* largest max_retries a task is configured with
MaxRetries == 2

\* ------------------------------------------------------------- pipelines
\* A block is <<task_id, index>>.
PipelineNames == {"chain", "fan", "join", "solo", "deep"}

RECURSIVE BlockSeq(_, _)
BlockSeq(t, n) == IF n = 0 THEN << >> ELSE Append(BlockSeq(t, n - 1), <<t, n - 1>>)

\* blocks of every task of pipeline p, in the graph's enumeration order
TaskBlockSeq(p) ==
    CASE p = "chain" -> [t \in {"A", "B"} |-> BlockSeq(t, 2)]
      [] p = "fan"   -> [t \in {"A", "B"} |-> IF t = "A" THEN BlockSeq(t, 1) ELSE BlockSeq(t, 2)]
      [] p = "join"  -> [t \in {"A", "B", "C"} |-> BlockSeq(t, 1)]
      [] p = "solo"  -> [t \in {"A"} |-> BlockSeq(t, 2)]
      [] p = "deep"  -> [t \in {"A", "B", "C"} |-> BlockSeq(t, 1)]

Range(f) == {f[i] : i \in DOMAIN f}

VARIABLES
    pipeline,            \* which dependency graph the scheduler was built over
    max_retries,         \* Task.max_retries
    check_tasks,         \* tasks whose check_function is not None
    count_all_orphans,   \* Scheduler.count_all_orphans
    task_states,         \* Scheduler.task_states : task_id -> TaskState
    ready_queue,         \* TaskBlocks.ready_queue
    processing_blocks,   \* TaskBlocks.processing_blocks
    block_retries,       \* TaskBlocks.block_retries
    root_tasks,          \* Scheduler.root_tasks : task_id -> root blocks not yet yielded
    surface,             \* ReadySurface state
    block_status,        \* Block.status of every block object
    last_prechecked,     \* Scheduler.last_prechecked
    succeeded,           \* blocks the caller has released with SUCCESS (history)
    check_calls          \* check_function calls of the latest public call:
                         \* the block and what the call did

vars == <<pipeline, max_retries, check_tasks, count_all_orphans, task_states,
          ready_queue, processing_blocks, block_retries, root_tasks, surface,
          block_status, last_prechecked, succeeded, check_calls>>

config == <<pipeline, max_retries, check_tasks, count_all_orphans>>

\* ------------------------------------------------------- DependencyGraph
TaskIds == DOMAIN TaskBlockSeq(pipeline)

BlocksOf(t) == Range(TaskBlockSeq(pipeline)[t])

Blocks == UNION {BlocksOf(t) : t \in TaskIds}

task_id(block) == block[1]

\* DependencyGraph.upstream
upstream(block) ==
    CASE pipeline = "chain" -> IF block[1] = "B" THEN {<<"A", block[2]>>} ELSE {}
      [] pipeline = "fan"   -> IF block[1] = "B" THEN {<<"A", 0>>} ELSE {}
      [] pipeline = "join"  -> IF block[1] = "C" THEN {<<"A", 0>>, <<"B", 0>>} ELSE {}
      [] pipeline = "solo"  -> {}
      [] pipeline = "deep"  -> IF block[1] = "B" THEN {<<"A", 0>>}
                               ELSE IF block[1] = "C" THEN {<<"B", 0>>} ELSE {}

\* DependencyGraph.downstream
downstream(block) == {d \in Blocks : block \in upstream(d)}

\* DependencyGraph.num_blocks
num_blocks(t) == Len(TaskBlockSeq(pipeline)[t])

\* DependencyGraph.roots: the root blocks of task t, in enumeration order
RECURSIVE RootSeq(_)
RootSeq(sq) ==
    IF sq = << >> THEN << >>
    ELSE IF upstream(Head(sq)) = {} THEN <<Head(sq)>> \o RootSeq(Tail(sq))
    ELSE RootSeq(Tail(sq))

roots == LET withRoots == {t \in TaskIds : RootSeq(TaskBlockSeq(pipeline)[t]) # << >>}
         IN  [t \in withRoots |-> RootSeq(TaskBlockSeq(pipeline)[t])]

\* every block reachable from block along downstream edges
RECURSIVE TransDown(_, _)
TransDown(frontier, depth) ==
    IF depth = 0 \/ frontier = {} THEN {}
    ELSE LET nxt == UNION {downstream(b) : b \in frontier}
         IN  nxt \cup TransDown(nxt, depth - 1)

AllDownstream(block) == TransDown({block}, Cardinality(Blocks))


\* ----------------------------------------------------------- ReadySurface
\* ReadySurface.mark_success: records block as satisfied and returns the
\* downstream blocks whose last unsatisfied upstream it was; a block already
\* failed or orphaned is rejected.
mark_success(sf, block) ==
    IF block \in sf.failed \cup sf.orphaned
    THEN [sf |-> sf, new_blocks |-> {}, exc |-> "InvariantError"]
    ELSE LET done == sf.completed \cup {block}
             new  == IF block \in sf.completed THEN {}
                     ELSE {d \in downstream(block) : upstream(d) \subseteq done}
         IN  [sf |-> [sf EXCEPT !.completed = done], new_blocks |-> new, exc |-> "none"]

\* ReadySurface.mark_failure: records block as failed, orphans everything
\* downstream of it and returns the number of orphans: each block once, or
\* (count_all_orphans) once per failed upstream it hangs under.
mark_failure(sf, block, all_orphans) ==
    LET down == AllDownstream(block)
        num  == IF all_orphans THEN Cardinality(down)
                ELSE Cardinality(down \ sf.orphaned)
    IN  [sf |-> [sf EXCEPT !.failed = @ \cup {block}, !.orphaned = @ \cup down],
         num_orphans |-> num]

\* --------------------------------------------------------------- TaskState
TaskState == [started |-> FALSE, total_block_count |-> 0, ready_count |-> 0,
              processing_count |-> 0, completed_count |-> 0, failed_count |-> 0,
              orphaned_count |-> 0]

pending_count(ts) ==
    ts.total_block_count
        - (ts.ready_count + ts.completed_count + ts.failed_count
           + ts.orphaned_count + ts.processing_count)

is_done(ts) ==
    (ts.total_block_count - ts.completed_count - ts.failed_count - ts.orphaned_count) = 0

\* --------------------------------------------------------------- Scheduler
\* The mutable state of one Scheduler (and of the Block objects it touches).
\* checked / examined list, for the public call in progress, the calls of
\* check_function (block and outcome) and the blocks _get_block pulled.
Sched == [task_states |-> task_states, ready_queue |-> ready_queue,
          processing_blocks |-> processing_blocks, block_retries |-> block_retries,
          root_tasks |-> root_tasks, surface |-> surface,
          block_status |-> block_status, last_prechecked |-> last_prechecked,
          checked |-> << >>, examined |-> << >>]

NoBlock == {}

\* result of a call: the state it leaves, its return value, the exception raised
Result(s, ret, exc) == [s |-> s, ret |-> ret, exc |-> exc]

\* Scheduler.__init_task
init_task(t) ==
    [TaskState EXCEPT !.total_block_count = num_blocks(t),
                      !.ready_count = IF t \in DOMAIN roots THEN Len(roots[t]) ELSE 0]

\* has_next that admits the root with _queue_ready_block (ready_count += 1)
has_next_counted(s, t) ==
    IF s.task_states[t].ready_count >= 1
    THEN IF Len(s.ready_queue[t]) = 0
         THEN IF t \notin DOMAIN s.root_tasks
              THEN Result(s, FALSE, "KeyError")
              ELSE IF s.root_tasks[t] = << >>
              THEN Result(s, FALSE, "NotImplementedError")
              ELSE LET next_block == Head(s.root_tasks[t])
                       s1 == [s EXCEPT !.root_tasks[t] = Tail(@)]
                   IN  IF upstream(next_block) # {}
                       THEN Result(s1, FALSE, "AssertionError")
                       ELSE Result([s1 EXCEPT !.ready_queue[t] = Append(@, next_block),
                                              !.task_states[t].ready_count = @ + 1],
                                   TRUE, "none")
         ELSE Result(s, TRUE, "none")
    ELSE Result(s, FALSE, "none")

\* Scheduler.has_next
has_next(s, t) ==
    IF s.task_states[t].ready_count >= 1
    THEN IF Len(s.ready_queue[t]) = 0
         THEN IF t \notin DOMAIN s.root_tasks
              THEN Result(s, FALSE, "KeyError")
              ELSE IF s.root_tasks[t] = << >>
              THEN Result(s, FALSE, "NotImplementedError")
              ELSE LET next_block == Head(s.root_tasks[t])
                       s1 == [s EXCEPT !.root_tasks[t] = Tail(@)]
                   IN  IF upstream(next_block) # {}
                       THEN Result(s1, FALSE, "AssertionError")
                       ELSE Result([s1 EXCEPT !.ready_queue[t] = Append(@, next_block)],
                                   TRUE, "none")
         ELSE Result(s, TRUE, "none")
    ELSE Result(s, FALSE, "none")

\* Scheduler._get_block
get_block(s, t) ==
    Result([s EXCEPT !.ready_queue[t] = Tail(@),
                     !.task_states[t].ready_count = @ - 1,
                     !.task_states[t].processing_count = @ + 1,
                     !.examined = Append(@, Head(s.ready_queue[t]))],
           Head(s.ready_queue[t]), "none")

\* _queue_ready_block that admits at the head of the queue (appendleft)
queue_ready_block_at_head(s, block) ==
    [s EXCEPT !.ready_queue[task_id(block)] = <<block>> \o @,
              !.task_states[task_id(block)].ready_count = @ + 1]

\* Scheduler._queue_ready_block (index is None at every call site)
queue_ready_block(s, block) ==
    [s EXCEPT !.ready_queue[task_id(block)] = Append(@, block),
              !.task_states[task_id(block)].ready_count = @ + 1]

\* Scheduler.get_ready_tasks
get_ready_tasks(s) == {t \in TaskIds : s.task_states[t].ready_count > 0}

\* remove_from_processing_blocks that forgets the set and only counts down
remove_from_processing_blocks_count_only(s, block) ==
    IF block \notin s.processing_blocks[task_id(block)]
    THEN Result(s, NoBlock, "KeyError")
    ELSE Result([s EXCEPT !.task_states[task_id(block)].processing_count = @ - 1],
                NoBlock, "none")

\* remove_from_processing_blocks written with set.discard: a missing id passes
remove_from_processing_blocks_discard(s, block) ==
    Result([s EXCEPT !.processing_blocks[task_id(block)] = @ \ {block},
                     !.task_states[task_id(block)].processing_count = @ - 1],
           NoBlock, "none")

\* Scheduler.remove_from_processing_blocks: set.remove raises KeyError on a
\* missing id, before the count is touched
remove_from_processing_blocks(s, block) ==
    IF block \notin s.processing_blocks[task_id(block)]
    THEN Result(s, NoBlock, "KeyError")
    ELSE Result([s EXCEPT !.processing_blocks[task_id(block)] = @ \ {block},
                          !.task_states[task_id(block)].processing_count = @ - 1],
                NoBlock, "none")

\* Scheduler.update_ready_queue: ready_blocks is the sequence in which the
\* loop visits the new blocks; returns the state and the keys of updated_tasks
RECURSIVE update_ready_queue(_, _)
update_ready_queue(s, ready_blocks) ==
    IF ready_blocks = << >> THEN Result(s, {}, "none")
    ELSE LET r == update_ready_queue(queue_ready_block(s, Head(ready_blocks)),
                                     Tail(ready_blocks))
         IN  Result(r.s, r.ret \cup {task_id(Head(ready_blocks))}, "none")

\* the order in which a loop over the set new_blocks visits it, given the
\* iteration order iter (a sequence holding every candidate block once)
RECURSIVE IterSeq(_, _)
IterSeq(new_blocks, iter) ==
    IF iter = << >> THEN << >>
    ELSE IF Head(iter) \in new_blocks THEN <<Head(iter)>> \o IterSeq(new_blocks, Tail(iter))
    ELSE IterSeq(new_blocks, Tail(iter))

\* release_success that marks and counts the block but admits nothing
release_success_unadmitted(s, block, iter) ==
    LET m  == mark_success(s.surface, block)
        s1 == [s EXCEPT !.surface = m.sf]
    IN  IF m.exc # "none" THEN Result(s1, {}, m.exc)
        ELSE Result([s1 EXCEPT !.task_states[task_id(block)].completed_count = @ + 1],
                    {}, "none")

\* release_success that forgets completed_count += 1
release_success_uncounted(s, block, iter) ==
    LET m  == mark_success(s.surface, block)
        s1 == [s EXCEPT !.surface = m.sf]
    IN  IF m.exc # "none" THEN Result(s1, {}, m.exc)
        ELSE update_ready_queue(s1, IterSeq(m.new_blocks, iter))

\* release_block, status SUCCESS (lines 229-233)
release_success(s, block, iter) ==
    LET m  == mark_success(s.surface, block)
        s1 == [s EXCEPT !.surface = m.sf]
    IN  IF m.exc # "none" THEN Result(s1, {}, m.exc)
        ELSE update_ready_queue(
                 [s1 EXCEPT !.task_states[task_id(block)].completed_count = @ + 1],
                 IterSeq(m.new_blocks, iter))

\* release_failure that counts the failed block among the orphans
release_failure_self_orphaned(s, block) ==
    LET m == mark_failure(s.surface, block, count_all_orphans)
    IN  Result([s EXCEPT !.surface = m.sf,
                         !.task_states[task_id(block)].failed_count = @ + 1,
                         !.task_states[task_id(block)].orphaned_count = @ + m.num_orphans + 1],
               {}, "none")

\* release_block, status FAILED with the retries used up (lines 239-244)
release_failure(s, block) ==
    LET m == mark_failure(s.surface, block, count_all_orphans)
    IN  Result([s EXCEPT !.surface = m.sf,
                         !.task_states[task_id(block)].failed_count = @ + 1,
                         !.task_states[task_id(block)].orphaned_count = @ + m.num_orphans],
               {}, "none")

\* release_block, status FAILED with retries left (lines 245-248)
release_retry(s, block) ==
    Result([queue_ready_block(s, block) EXCEPT !.block_retries[block] = @ + 1],
           {task_id(block)}, "none")

\* release_block that takes the SUCCESS branch for a terminal failure too
release_block_failure_as_success(s, block, status, iter) ==
    LET r == remove_from_processing_blocks(s, block)
    IN  IF r.exc # "none" THEN Result(r.s, {}, r.exc)
        ELSE IF status = "SUCCESS"
        THEN release_success(r.s, block, iter)
        ELSE IF status = "FAILED"
        THEN IF r.s.block_retries[block] >= max_retries[task_id(block)]
             THEN release_success(r.s, block, iter)
             ELSE release_retry(r.s, block)
        ELSE Result(r.s, {}, "RuntimeError")

\* release_block whose retry test is off by one (> for >=)
release_block_extra_retry(s, block, status, iter) ==
    LET r == remove_from_processing_blocks(s, block)
    IN  IF r.exc # "none" THEN Result(r.s, {}, r.exc)
        ELSE IF status = "SUCCESS"
        THEN release_success(r.s, block, iter)
        ELSE IF status = "FAILED"
        THEN IF r.s.block_retries[block] > max_retries[task_id(block)]
             THEN release_failure(r.s, block)
             ELSE release_retry(r.s, block)
        ELSE Result(r.s, {}, "RuntimeError")

\* Scheduler.release_block; status is block.status of the object passed in,
\* ret is the key set of the returned mapping
release_block(s, block, status, iter) ==
    LET r == remove_from_processing_blocks(s, block)
    IN  IF r.exc # "none" THEN Result(r.s, {}, r.exc)
        ELSE IF status = "SUCCESS"
        THEN release_success(r.s, block, iter)
        ELSE IF status = "FAILED"
        THEN IF r.s.block_retries[block] >= max_retries[task_id(block)]
             THEN release_failure(r.s, block)
             ELSE release_retry(r.s, block)
        ELSE Result(r.s, {}, "RuntimeError")

\* precheck without the try/except: an exception of check_function escapes
precheck_unguarded(s, t, block, chk) ==
    IF s.last_prechecked[t].block # {block}
    THEN LET pre_check_ret == IF t \in check_tasks THEN chk[block] = "true" ELSE FALSE
             s1 == IF t \in check_tasks THEN [s EXCEPT !.checked = Append(@, [block |-> block, outcome |-> chk[block]])] ELSE s
         IN  IF t \in check_tasks /\ chk[block] = "raise"
             THEN Result(s1, FALSE, "Exception")
             ELSE Result([s1 EXCEPT !.last_prechecked[t] =
                                        [block |-> {block}, result |-> pre_check_ret]],
                         pre_check_ret, "none")
    ELSE Result(s, s.last_prechecked[t].result, "none")

\* precheck without the memo: check_function is called on every block pulled
precheck_no_memo(s, t, block, chk) ==
    LET pre_check_ret == IF t \in check_tasks THEN chk[block] = "true" ELSE FALSE
        s1 == IF t \in check_tasks THEN [s EXCEPT !.checked = Append(@, [block |-> block, outcome |-> chk[block]])] ELSE s
    IN  Result([s1 EXCEPT !.last_prechecked[t] =
                              [block |-> {block}, result |-> pre_check_ret]],
               pre_check_ret, "none")

\* Scheduler.precheck; chk[block] is what check_function(block) does if it is
\* called now: "true", "false" or "raise"
precheck(s, t, block, chk) ==
    IF s.last_prechecked[t].block # {block}
    THEN LET pre_check_ret == IF t \in check_tasks THEN chk[block] = "true" ELSE FALSE
             s1 == IF t \in check_tasks THEN [s EXCEPT !.checked = Append(@, [block |-> block, outcome |-> chk[block]])] ELSE s
         IN  Result([s1 EXCEPT !.last_prechecked[t] =
                                   [block |-> {block}, result |-> pre_check_ret]],
                    pre_check_ret, "none")
    ELSE Result(s, s.last_prechecked[t].result, "none")

\* acquire_return that leaves the started flag alone
acquire_return_unlatched(s, t, block) ==
    Result([s EXCEPT !.processing_blocks[t] = @ \cup {block}], {block}, "none")

\* acquire_block, the branch taken when precheck is false (lines 195-200)
acquire_return(s, t, block) ==
    Result([s EXCEPT !.task_states[t].started = (@ \/ TRUE),
                     !.processing_blocks[t] = @ \cup {block}],
           {block}, "none")

\* Scheduler.acquire_block; ret is {block} or NoBlock (None)
RECURSIVE acquire_block(_, _, _, _)
acquire_block(s, t, chk, iter) ==
    LET h == has_next(s, t)
    IN  IF h.exc # "none" THEN Result(h.s, NoBlock, h.exc)
        ELSE IF ~h.ret THEN Result(h.s, NoBlock, "none")
        ELSE LET g == get_block(h.s, t)
                 block == g.ret
                 p == precheck(g.s, t, block, chk)
             IN  IF p.exc # "none" THEN Result(p.s, NoBlock, p.exc)
                 ELSE IF p.ret
                 THEN LET s1 == [p.s EXCEPT !.block_status[block] = "SUCCESS"]
                          r  == release_block(s1, block, s1.block_status[block], iter)
                      IN  IF r.exc # "none" THEN Result(r.s, NoBlock, r.exc)
                          ELSE acquire_block(r.s, t, chk, iter)
                 ELSE acquire_return(p.s, t, block)


\* --------------------------------------------------------- state machine
\* what check_function may do when called on a block
Outcomes == {"true", "false", "raise"}

\* statuses a caller may hand to release_block: the two terminal ones and one
\* that is neither
ReleaseStatuses == {"SUCCESS", "FAILED", "IN_PROGRESS"}

NonRootBlocks == {b \in Blocks : upstream(b) # {}}

\* the blocks of task t that acquire_block can pull now: those queued and the
\* roots not yet yielded
Candidates(t) ==
    Range(ready_queue[t]) \cup (IF t \in DOMAIN root_tasks THEN Range(root_tasks[t]) ELSE {})

\* what check_function of task t may do on each block it can be called on (a
\* task without one never calls it)
CheckOutcomes(t) ==
    IF t \in check_tasks THEN [Candidates(t) -> Outcomes]
    ELSE {[b \in Candidates(t) |-> "false"]}

\* position of a block in the graph's enumeration of all blocks
Pos(b) == (CASE b[1] = "A" -> 0 [] b[1] = "B" -> 1 [] b[1] = "C" -> 2) * Cardinality(Blocks) + b[2]

\* every order in which a loop over a set of newly ready blocks can visit it.
\* mark_success(b) returns downstream blocks of b only, so two blocks without
\* a common upstream are never in one set: their relative order is immaterial
\* and kept as enumerated.
IterOrders ==
    {sq \in [1..Cardinality(NonRootBlocks) -> NonRootBlocks] :
        /\ \A i, j \in DOMAIN sq : i # j => sq[i] # sq[j]
        /\ \A i, j \in DOMAIN sq :
               (i < j /\ upstream(sq[i]) \cap upstream(sq[j]) = {}) => Pos(sq[i]) < Pos(sq[j])}

\* max_retries of the tasks of pipeline p: scenario S1 (chain) fixes it to 0,
\* the other pipelines run under every limit up to MaxRetries
RetryChoices(p) == IF p = "chain" THEN {0} ELSE 0..MaxRetries

\* count_all_orphans of the scheduler over pipeline p: the flag changes a count
\* only where one block hangs under two failed blocks, which is join (S4)
OrphanModes(p) == IF p = "join" THEN BOOLEAN ELSE {FALSE}

\* Scheduler.__init__
Init ==
    /\ pipeline \in PipelineNames
    /\ \E R \in RetryChoices(pipeline) : max_retries = [t \in TaskIds |-> R]
    /\ check_tasks \in {{}, TaskIds}
    /\ count_all_orphans \in OrphanModes(pipeline)
    /\ task_states = [t \in TaskIds |-> init_task(t)]
    /\ ready_queue = [t \in TaskIds |-> << >>]
    /\ processing_blocks = [t \in TaskIds |-> {}]
    /\ block_retries = [b \in Blocks |-> 0]
    /\ root_tasks = roots
    /\ surface = [completed |-> {}, failed |-> {}, orphaned |-> {}]
    /\ block_status = [b \in Blocks |-> "CREATED"]
    /\ last_prechecked = [t \in TaskIds |-> [block |-> NoBlock, result |-> FALSE]]
    /\ succeeded = {}
    /\ check_calls = << >>

\* the scheduler is left in state s
Install(s) ==
    /\ task_states' = s.task_states
    /\ ready_queue' = s.ready_queue
    /\ processing_blocks' = s.processing_blocks
    /\ block_retries' = s.block_retries
    /\ root_tasks' = s.root_tasks
    /\ surface' = s.surface
    /\ block_status' = s.block_status
    /\ last_prechecked' = s.last_prechecked
    /\ check_calls' = s.checked

\* a caller asks has_next(t)
HasNext(t) ==
    LET r == has_next(Sched, t)
    IN  /\ Install(r.s)
        /\ UNCHANGED <<config, succeeded>>

\* a caller asks acquire_block(t)
Acquire(t, chk, iter) ==
    LET r == acquire_block(Sched, t, chk, iter)
    IN  /\ Install(r.s)
        /\ UNCHANGED <<config, succeeded>>

\* a caller hands block back with block.status = status
Release(block, status, iter) ==
    LET r == release_block(Sched, block, status, iter)
    IN  /\ Install(r.s)
        /\ succeeded' = IF r.exc = "none" /\ status = "SUCCESS"
                        THEN succeeded \cup {block} ELSE succeeded
        /\ UNCHANGED config

Next ==
    \/ \E t \in TaskIds : HasNext(t)
    \/ \E t \in TaskIds : \E chk \in CheckOutcomes(t) : \E iter \in IterOrders :
           Acquire(t, chk, iter)
    \/ \E b \in Blocks : \E st \in ReleaseStatuses : \E iter \in IterOrders :
           Release(b, st, iter)

Spec == Init /\ [][Next]_vars


\* ------------------------------------------------------------ properties
QueuedBlocks(t) == Range(ready_queue[t])

InFlight == UNION {processing_blocks[t] : t \in TaskIds}

\* blocks the precheck skip path has marked SUCCESS
Skipped == {b \in Blocks : block_status[b] = "SUCCESS"}

\* blocks whose work is done: released with SUCCESS by the caller, or skipped
\* by precheck and released by acquire_block itself
Satisfied == succeeded \cup (Skipped \cap surface.completed)

\* C1 Dependency safety: whatever the caller has done so far, a block that
\* acquire_block returns has every upstream block released with SUCCESS (or
\* skipped by precheck), and none that is failed or orphaned.
DependencySafety ==
    \A t \in TaskIds : \A chk \in CheckOutcomes(t) : \A iter \in IterOrders :
        LET r == acquire_block(Sched, t, chk, iter)
        IN  \A b \in r.ret :
                /\ upstream(b) \subseteq Satisfied
                /\ upstream(b) \cap (surface.failed \cup surface.orphaned) = {}

\* a block with upstreams has been handed out
DependencySafetyWitness ==
    \E b \in InFlight : upstream(b) # {} /\ upstream(b) \subseteq succeeded

\* C2 Count invariant: for every task total = ready + processing + completed
\* + failed + orphaned + pending, and the derived pending count is >= 0.
CountInvariant ==
    \A t \in TaskIds :
        LET ts == task_states[t]
        IN  /\ ts.total_block_count =
                   ts.ready_count + ts.processing_count + ts.completed_count
                   + ts.failed_count + ts.orphaned_count + pending_count(ts)
            /\ pending_count(ts) >= 0

\* blocks of task t that a terminal failure of block orphans now
NewOrphans(block, t) == (AllDownstream(block) \ surface.orphaned) \cap BlocksOf(t)

\* C3 Orphan attribution: releasing an in-flight block FAILED with its retries
\* used up adds 1 to its task's failed_count, leaves that task's
\* orphaned_count alone, and adds the blocks it orphans to the orphaned_count
\* of the tasks that own them (count_all_orphans = false).
\* Scenario S3 (fan: a0 upstream of b0 and b1): once a0 has failed for good,
\* A.failed = 1, A.orphaned = 0, B.orphaned = 2, B.completed = 0.
OrphanAttribution ==
    /\ \A b \in InFlight : \A iter \in IterOrders :
           LET r == release_block(Sched, b, "FAILED", iter)
               A == task_id(b)
           IN  (~count_all_orphans /\ block_retries[b] >= max_retries[A]) =>
                   /\ r.s.task_states[A].failed_count = task_states[A].failed_count + 1
                   /\ r.s.task_states[A].orphaned_count = task_states[A].orphaned_count
                   /\ \A t \in TaskIds \ {A} :
                          r.s.task_states[t].orphaned_count =
                              task_states[t].orphaned_count + Cardinality(NewOrphans(b, t))
    /\ (pipeline = "fan" /\ ~count_all_orphans /\ <<"A", 0>> \in surface.failed) =>
           /\ task_states["A"].failed_count = 1
           /\ task_states["A"].orphaned_count = 0
           /\ task_states["B"].orphaned_count = 2
           /\ task_states["B"].completed_count = 0


\* the blocks check_function was called on, in call order
CheckedBlocks(r) == [i \in DOMAIN r.s.checked |-> r.s.checked[i].block]

\* the blocks the call examined and did not return
SkippedBy(r) == Range(r.s.examined) \ r.ret

\* C4 Precheck skip path: when acquire_block(t) pulls a block whose check is
\* true the call does not raise; every such block gets status SUCCESS, is
\* recorded as completed and counted in completed_count, its downstream blocks
\* are admitted as for a success; the call returns the first examined block
\* whose check is false (or None), and check_function ran once per examined
\* block.
PrecheckSkipPath ==
    \A t \in check_tasks : \A chk \in CheckOutcomes(t) : \A iter \in IterOrders :
        LET r == acquire_block(Sched, t, chk, iter)
            first == Head(r.s.examined)
        IN  (r.s.examined # << >> /\ r.s.checked # << >> /\ first = Head(r.s.checked).block
             /\ chk[first] = "true") =>
                /\ r.exc = "none"
                /\ \A b \in SkippedBy(r) :
                       /\ r.s.block_status[b] = "SUCCESS"
                       /\ b \in r.s.surface.completed
                       /\ \A d \in downstream(b) :
                              upstream(d) \subseteq r.s.surface.completed
                                  => d \in Range(r.s.ready_queue[task_id(d)])
                                         \cup r.s.processing_blocks[task_id(d)]
                /\ r.s.task_states[t].completed_count =
                       task_states[t].completed_count + Cardinality(SkippedBy(r))
                /\ \A b \in r.ret : chk[b] # "true" /\ b = r.s.examined[Len(r.s.examined)]
                /\ CheckedBlocks(r) = r.s.examined

\* C5 Done implies nothing to hand out: for a task with is_done(), has_next
\* is false and acquire_block returns None.
DoneImpliesNothingLeft ==
    \A t \in TaskIds :
        is_done(task_states[t]) =>
            /\ ~has_next(Sched, t).ret
            /\ \A chk \in CheckOutcomes(t) : \A iter \in IterOrders :
                   acquire_block(Sched, t, chk, iter).ret = NoBlock

\* C6 Retry limit: an in-flight block released FAILED goes back to the tail of
\* its task's ready queue while it has been retried fewer than max_retries
\* times (retry counter +1, ready_count +1, failed_count unchanged); with
\* max_retries retries behind it the release makes it terminally failed
\* (failed_count +1, not queued), and a terminally failed block is never
\* handed out again.  A one-block task whose block succeeded after
\* max_retries = 2 retries ends with completed 1, failed 0, orphaned 0.
RetryLimit ==
    /\ \A b \in InFlight : \A iter \in IterOrders :
           LET r == release_block(Sched, b, "FAILED", iter)
               t == task_id(b)
           IN  /\ r.exc = "none"
               /\ block_retries[b] < max_retries[t] =>
                      /\ r.s.ready_queue[t] = Append(ready_queue[t], b)
                      /\ r.s.block_retries[b] = block_retries[b] + 1
                      /\ r.s.task_states[t].ready_count = task_states[t].ready_count + 1
                      /\ r.s.task_states[t].failed_count = task_states[t].failed_count
                      /\ b \notin r.s.surface.failed
               /\ block_retries[b] >= max_retries[t] =>
                      /\ r.s.task_states[t].failed_count = task_states[t].failed_count + 1
                      /\ r.s.ready_queue = ready_queue
                      /\ r.s.block_retries = block_retries
                      /\ b \in r.s.surface.failed
    /\ \A b \in Blocks : block_retries[b] <= max_retries[task_id(b)]
    /\ \A b \in surface.failed :
           /\ block_retries[b] = max_retries[task_id(b)]
           /\ b \notin QueuedBlocks(task_id(b)) \cup InFlight
    /\ \A t \in TaskIds : \A chk \in CheckOutcomes(t) : \A iter \in IterOrders :
           acquire_block(Sched, t, chk, iter).ret \cap surface.failed = {}
    /\ \A b \in succeeded :
           (num_blocks(task_id(b)) = 1 /\ max_retries[task_id(b)] = 2
            /\ block_retries[b] = 2) =>
               /\ task_states[task_id(b)].completed_count = 1
               /\ task_states[task_id(b)].failed_count = 0
               /\ task_states[task_id(b)].orphaned_count = 0

\* a block failed twice under max_retries = 2 and then succeeded, another one
\* has failed for good
RetryLimitWitness ==
    /\ \E b \in succeeded :
           num_blocks(task_id(b)) = 1 /\ max_retries[task_id(b)] = 2 /\ block_retries[b] = 2
    /\ \E b \in surface.failed : block_retries[b] = 2

\* the places a block can be in
PlacesOf(b) ==
    {p \in {"ready_queue", "processing_blocks", "completed", "failed", "orphaned"} :
        \/ p = "ready_queue" /\ b \in QueuedBlocks(task_id(b))
        \/ p = "processing_blocks" /\ b \in processing_blocks[task_id(b)]
        \/ p = "completed" /\ b \in surface.completed
        \/ p = "failed" /\ b \in surface.failed
        \/ p = "orphaned" /\ b \in surface.orphaned}

\* C7 Exclusive block state: every block is in at most one of ready_queue,
\* processing_blocks, completed, failed, orphaned (and at most once in the
\* queue), and acquire_block never returns a block that is in flight,
\* completed, terminally failed or orphaned.
ExclusiveBlockState ==
    /\ \A b \in Blocks : Cardinality(PlacesOf(b)) <= 1
    /\ \A t \in TaskIds : Cardinality(QueuedBlocks(t)) = Len(ready_queue[t])
    /\ \A t \in TaskIds : \A chk \in CheckOutcomes(t) : \A iter \in IterOrders :
           acquire_block(Sched, t, chk, iter).ret
               \cap (InFlight \cup surface.completed \cup surface.failed
                     \cup surface.orphaned) = {}

\* a retried block is back in the queue (and nowhere else) while another block
\* has failed for good and a third is orphaned
ExclusiveBlockStateWitness ==
    /\ \E b \in Blocks : block_retries[b] > 0 /\ PlacesOf(b) = {"ready_queue"}
    /\ \E b \in Blocks : PlacesOf(b) = {"failed"}
    /\ \E b \in Blocks : PlacesOf(b) = {"orphaned"}


\* C8 All-success run: once every block has been acquired and released, each
\* time with SUCCESS, every task has completed_count = total_block_count and
\* ready, processing, failed, orphaned and pending all zero, get_ready_tasks()
\* is empty and acquire_block returns None for every task.
AllSuccessRun ==
    (Blocks \subseteq succeeded /\ \A b \in Blocks : block_retries[b] = 0) =>
        /\ \A t \in TaskIds :
               LET ts == task_states[t]
               IN  /\ ts.completed_count = ts.total_block_count
                   /\ ts.ready_count = 0 /\ ts.processing_count = 0
                   /\ ts.failed_count = 0 /\ ts.orphaned_count = 0
                   /\ pending_count(ts) = 0
        /\ get_ready_tasks(Sched) = {}
        /\ \A t \in TaskIds : \A chk \in CheckOutcomes(t) : \A iter \in IterOrders :
               LET r == acquire_block(Sched, t, chk, iter)
               IN  r.ret = NoBlock /\ r.exc = "none"

\* the linear chain A -> B has run to the end with nothing but successes
AllSuccessRunWitness ==
    /\ pipeline = "chain"
    /\ Blocks \subseteq succeeded
    /\ \A b \in Blocks : block_retries[b] = 0

\* C9 Invalid releases are rejected: release_block raises whenever the
\* block's id is not in its task's processing_blocks (never acquired, or
\* released before) and whenever its status is neither SUCCESS nor FAILED.
InvalidReleaseRejected ==
    \A b \in Blocks : \A st \in ReleaseStatuses : \A iter \in IterOrders :
        LET r == release_block(Sched, b, st, iter)
        IN  /\ b \notin processing_blocks[task_id(b)] => r.exc = "KeyError"
            /\ (b \in processing_blocks[task_id(b)] /\ st \notin {"SUCCESS", "FAILED"})
                   => r.exc = "RuntimeError"

\* one block was released before, one was never acquired and one is in flight
InvalidReleaseRejectedWitness ==
    /\ \E b \in succeeded : b \notin InFlight
    /\ \E b \in Blocks : b \in QueuedBlocks(task_id(b))
    /\ InFlight # {}

\* C10 Precheck exception is non-fatal: when check_function raises on the
\* block acquire_block pulled, the call raises nothing and returns that very
\* block in flight: ready_count -1, processing_count +1, id in
\* processing_blocks, completed_count unchanged.
PrecheckExceptionNonFatal ==
    \A t \in check_tasks : \A chk \in CheckOutcomes(t) : \A iter \in IterOrders :
        LET r == acquire_block(Sched, t, chk, iter)
            first == Head(r.s.examined)
        IN  (r.s.examined # << >> /\ r.s.checked # << >> /\ first = Head(r.s.checked).block
             /\ chk[first] = "raise") =>
                /\ r.exc = "none"
                /\ r.ret = {first}
                /\ r.s.last_prechecked[t] = [block |-> {first}, result |-> FALSE]
                /\ r.s.task_states[t].ready_count = task_states[t].ready_count - 1
                /\ r.s.task_states[t].processing_count = task_states[t].processing_count + 1
                /\ first \in r.s.processing_blocks[t]
                /\ r.s.task_states[t].completed_count = task_states[t].completed_count

\* scenario S6: check_function raised on the first root of solo and
\* acquire_block handed that block out
PrecheckExceptionWitness ==
    /\ pipeline = "solo"
    /\ check_calls = << [block |-> <<"A", 0>>, outcome |-> "raise"] >>
    /\ <<"A", 0>> \in processing_blocks["A"]
    /\ task_states["A"].ready_count = 1
    /\ task_states["A"].processing_count = 1
    /\ task_states["A"].completed_count = 0

\* C11 Precheck memo: when acquire_block(t) pulls the block that the previous
\* precheck of task t examined, check_function is not called on it again and
\* the memoised result decides the call; no call on another task, and no
\* release_block or has_next, touches the memo of t.
PrecheckMemo ==
    /\ \A t \in TaskIds : \A chk \in CheckOutcomes(t) : \A iter \in IterOrders :
           LET r == acquire_block(Sched, t, chk, iter)
               first == Head(r.s.examined)
           IN  /\ (r.s.examined # << >> /\ last_prechecked[t].block = {first}) =>
                      /\ \A i \in DOMAIN r.s.checked : r.s.checked[i].block # first
                      /\ ~last_prechecked[t].result => r.ret = {first}
                      /\ r.s.last_prechecked[t] = last_prechecked[t]
               /\ \A u \in TaskIds \ {t} : r.s.last_prechecked[u] = last_prechecked[u]
    /\ \A b \in Blocks : \A st \in ReleaseStatuses : \A iter \in IterOrders :
           release_block(Sched, b, st, iter).s.last_prechecked = last_prechecked
    /\ \A t \in TaskIds : has_next(Sched, t).s.last_prechecked = last_prechecked

\* join: a0 was handed out, released FAILED and handed out again without a
\* call of check_function, with a precheck of task B in between
PrecheckMemoWitness ==
    /\ pipeline = "join"
    /\ check_tasks = TaskIds
    /\ block_retries[<<"A", 0>>] >= 1
    /\ <<"A", 0>> \in processing_blocks["A"]
    /\ last_prechecked["A"] = [block |-> {<<"A", 0>>}, result |-> FALSE]
    /\ last_prechecked["B"].block = {<<"B", 0>>}
    /\ check_calls = << >>

\* sq1 is an initial segment of sq2
IsPrefix(sq1, sq2) == Len(sq1) <= Len(sq2) /\ SubSeq(sq2, 1, Len(sq1)) = sq1

\* sq1 is a final segment of sq2
IsSuffix(sq1, sq2) ==
    Len(sq1) <= Len(sq2) /\ SubSeq(sq2, Len(sq2) - Len(sq1) + 1, Len(sq2)) = sq1

\* the roots of task t that the root sequence has yet to yield
RootsLeft(t) == IF t \in DOMAIN root_tasks THEN root_tasks[t] ELSE << >>

\* C12 Per-task ordering: acquire_block(t) pulls blocks from the head of the
\* ready queue of t, and from the root sequence, in its order, only when the
\* queue is empty; the block it returns is the last one it pulled; every
\* admission (newly ready block, retried block) goes to the tail of a queue,
\* so the queue is first in, first out.
PerTaskOrdering ==
    /\ \A t \in TaskIds : \A chk \in CheckOutcomes(t) : \A iter \in IterOrders :
           LET r == acquire_block(Sched, t, chk, iter)
           IN  /\ IsPrefix(r.s.examined,
                           IF ready_queue[t] # << >> THEN ready_queue[t] ELSE RootsLeft(t))
               /\ \A b \in r.ret : b = r.s.examined[Len(r.s.examined)]
               /\ ready_queue[t] # << >> => r.s.root_tasks = root_tasks
               /\ IsSuffix(r.s.ready_queue[t], ready_queue[t])
                      \/ (ready_queue[t] = << >> /\ r.s.ready_queue[t] = << >>)
    /\ \A b \in Blocks : \A st \in ReleaseStatuses : \A iter \in IterOrders :
           LET r == release_block(Sched, b, st, iter)
           IN  /\ \A t \in TaskIds : IsPrefix(ready_queue[t], r.s.ready_queue[t])
               /\ r.s.root_tasks = root_tasks
    /\ \A t \in TaskIds :
           LET r == has_next(Sched, t)
           IN  IF ready_queue[t] # << >> \/ RootsLeft(t) = << >>
               THEN r.s.ready_queue = ready_queue /\ r.s.root_tasks = root_tasks
               ELSE /\ r.s.ready_queue[t] = <<Head(RootsLeft(t))>>
                    /\ r.s.root_tasks[t] = Tail(RootsLeft(t))

\* fan: b0 and b1 were admitted together, one of them was handed out, released
\* FAILED and re-admitted behind the other, which then left the queue first
PerTaskOrderingWitness ==
    /\ pipeline = "fan"
    /\ \E b, c \in BlocksOf("B") :
           /\ b # c
           /\ block_retries[b] = 1 /\ ready_queue["B"] = <<b>>
           /\ block_retries[c] = 0 /\ c \in processing_blocks["B"]

\* C13 count_all_orphans modes: in the join pipeline (a0 and b0 both upstream
\* of c0), once a0 and b0 have both failed for good, the orphaned_count of
\* task C is 2 with count_all_orphans and 1 without it.
OrphanModesJoin ==
    (pipeline = "join" /\ {<<"A", 0>>, <<"B", 0>>} \subseteq surface.failed) =>
        task_states["C"].orphaned_count = IF count_all_orphans THEN 2 ELSE 1

\* C14 In-flight accounting: between public calls, every task's
\* processing_count is the size of its processing_blocks, the block an
\* acquire_block returns is in processing_blocks, and no call other than a
\* release_block of that block takes it out.
InFlightAccounting ==
    /\ \A t \in TaskIds :
           task_states[t].processing_count = Cardinality(processing_blocks[t])
    /\ \A t \in TaskIds : \A chk \in CheckOutcomes(t) : \A iter \in IterOrders :
           LET r == acquire_block(Sched, t, chk, iter)
           IN  /\ r.ret \subseteq r.s.processing_blocks[t]
               /\ \A u \in TaskIds : processing_blocks[u] \subseteq r.s.processing_blocks[u]
    /\ \A t \in TaskIds :
           has_next(Sched, t).s.processing_blocks = processing_blocks
    /\ \A b \in Blocks : \A st \in ReleaseStatuses : \A iter \in IterOrders :
           InFlight \ {b} \subseteq
               UNION {release_block(Sched, b, st, iter).s.processing_blocks[t] : t \in TaskIds}

\* downstream blocks of block whose only upstream still missing is block
NewlyReady(block) ==
    {d \in downstream(block) : upstream(d) \ surface.completed = {block}}

\* C15 Effect of a SUCCESS release: releasing an in-flight block b with status
\* SUCCESS raises nothing, takes 1 from processing_count and adds 1 to
\* completed_count of b's task, appends every downstream block whose last
\* unsatisfied upstream was b once to the tail of its own task's queue
\* (ready_count + 1 per block), changes no failed_count or orphaned_count, and
\* returns as keys exactly the tasks that received a block.
SuccessReleaseEffect ==
    \A b \in InFlight : \A iter \in IterOrders :
        LET r   == release_block(Sched, b, "SUCCESS", iter)
            A   == task_id(b)
            new == NewlyReady(b)
        IN  /\ r.exc = "none"
            /\ r.s.task_states[A].processing_count = task_states[A].processing_count - 1
            /\ r.s.task_states[A].completed_count = task_states[A].completed_count + 1
            /\ \A t \in TaskIds :
                   LET q    == r.s.ready_queue[t]
                       newt == new \cap BlocksOf(t)
                   IN  /\ IsPrefix(ready_queue[t], q)
                       /\ Len(q) = Len(ready_queue[t]) + Cardinality(newt)
                       /\ {q[i] : i \in (Len(ready_queue[t]) + 1)..Len(q)} = newt
                       /\ r.s.task_states[t].ready_count =
                              task_states[t].ready_count + Cardinality(newt)
                       /\ r.s.task_states[t].failed_count = task_states[t].failed_count
                       /\ r.s.task_states[t].orphaned_count = task_states[t].orphaned_count
            /\ r.ret = {t \in TaskIds : new \cap BlocksOf(t) # {}}

\* fan: a0 was released SUCCESS and both of its downstream blocks sit in the
\* queue of task B
SuccessReleaseEffectWitness ==
    /\ pipeline = "fan"
    /\ <<"A", 0>> \in succeeded
    /\ task_states["A"].completed_count = 1
    /\ Len(ready_queue["B"]) = 2
    /\ task_states["B"].ready_count = 2

\* C16 has_next consistency: a task's ready_count is the length of its ready
\* queue plus the number of roots its root sequence has yet to yield; has_next
\* returns true exactly when the queue is non-empty or roots remain, raises
\* nothing, and changes no count of any task.
HasNextConsistency ==
    \A t \in TaskIds :
        LET r == has_next(Sched, t)
        IN  /\ task_states[t].ready_count = Len(ready_queue[t]) + Len(RootsLeft(t))
            /\ r.exc = "none"
            /\ r.ret = (ready_queue[t] # << >> \/ RootsLeft(t) # << >>)
            /\ r.s.task_states = task_states

\* solo: has_next moved a0 from the root sequence into the queue, a1 is still
\* to be yielded, nothing was acquired
HasNextConsistencyWitness ==
    /\ pipeline = "solo"
    /\ ready_queue["A"] = << <<"A", 0>> >>
    /\ root_tasks["A"] = << <<"A", 1>> >>
    /\ block_retries[<<"A", 0>>] = 0
    /\ task_states["A"].ready_count = 2
    /\ task_states["A"].processing_count = 0

\* sum of orphaned_count over the tasks in T, in the state s
RECURSIVE OrphanedSum(_, _)
OrphanedSum(s, T) ==
    IF T = {} THEN 0
    ELSE LET t == CHOOSE x \in T : TRUE
         IN  s.task_states[t].orphaned_count + OrphanedSum(s, T \ {t})

\* blocks with a terminally failed block somewhere upstream
UnderFailure == UNION {AllDownstream(f) : f \in surface.failed}

\* C17 Orphan total with count_all_orphans = false: the orphaned_count of all
\* tasks together is the number of distinct blocks that have a terminally
\* failed block somewhere upstream; a terminal failure adds to the total only
\* the blocks it orphans that were not orphaned before, and a failed block is
\* not among the orphans.
OrphanTotal ==
    ~count_all_orphans =>
        /\ OrphanedSum(Sched, TaskIds) = Cardinality(UnderFailure)
        /\ UnderFailure = surface.orphaned
        /\ surface.failed \cap surface.orphaned = {}
        /\ \A b \in InFlight : \A iter \in IterOrders :
               LET r == release_block(Sched, b, "FAILED", iter)
               IN  block_retries[b] >= max_retries[task_id(b)] =>
                       OrphanedSum(r.s, TaskIds) =
                           OrphanedSum(Sched, TaskIds)
                               + Cardinality(AllDownstream(b) \ surface.orphaned)

\* join without count_all_orphans: a0 and b0 have both failed for good and
\* their common downstream block c0 is counted once
OrphanTotalWitness ==
    /\ pipeline = "join" /\ ~count_all_orphans
    /\ surface.failed = {<<"A", 0>>, <<"B", 0>>}
    /\ surface.orphaned = {<<"C", 0>>}
    /\ OrphanedSum(Sched, TaskIds) = 1

\* started flags of all tasks in the state s
Started(s) == [t \in TaskIds |-> s.task_states[t].started]

\* C18 started latch: every task starts with started false; an acquire_block
\* on a task that returns a block leaves that task's flag true, one that
\* returns None leaves it as it was, no acquire_block touches another task's
\* flag, and release_block and has_next change no flag; so from one state to
\* the next a flag changes only from false to true, with a block of the task
\* newly in flight.
StartedLatch ==
    /\ \A t \in TaskIds : ~task_states[t].started
    /\ [][\A t \in TaskIds :
              task_states'[t].started =
                  (task_states[t].started \/ processing_blocks'[t] \ processing_blocks[t] # {})]_vars
    /\ [](/\ \A t \in TaskIds : \A chk \in CheckOutcomes(t) : \A iter \in IterOrders :
                 LET r == acquire_block(Sched, t, chk, iter)
                 IN  Started(r.s) =
                         [Started(Sched) EXCEPT ![t] = IF r.ret # {} THEN TRUE ELSE @]
          /\ \A b \in Blocks : \A st \in ReleaseStatuses : \A iter \in IterOrders :
                 Started(release_block(Sched, b, st, iter).s) = Started(Sched)
          /\ \A t \in TaskIds : Started(has_next(Sched, t).s) = Started(Sched))

\* deep: a0 was handed out and released FAILED for good; A stays started with
\* nothing in flight, B never returned a block
StartedLatchWitness ==
    /\ pipeline = "deep"
    /\ <<"A", 0>> \in surface.failed
    /\ processing_blocks["A"] = {}
    /\ task_states["A"].started
    /\ ~task_states["B"].started

\* C19 Rejected release leaves state unchanged: whenever release_block raises,
\* the counts of every task, processing_blocks, ready_queue and the retry
\* counters are what they were before the call.
RejectedReleaseUnchanged ==
    \A b \in Blocks : \A st \in ReleaseStatuses : \A iter \in IterOrders :
        LET r == release_block(Sched, b, st, iter)
        IN  r.exc # "none" =>
                /\ r.s.task_states = task_states
                /\ r.s.processing_blocks = processing_blocks
                /\ r.s.ready_queue = ready_queue
                /\ r.s.block_retries = block_retries

\* ------------------------------------------------------ the draining caller
\* a worker asks for a block of a task that get_ready_tasks() lists
DrainAcquire(t, chk, iter) ==
    /\ t \in get_ready_tasks(Sched)
    /\ Acquire(t, chk, iter)

\* a worker hands back a block it holds, with a terminal status
DrainRelease(block, status, iter) ==
    /\ block \in InFlight
    /\ status \in {"SUCCESS", "FAILED"}
    /\ Release(block, status, iter)

DrainNext ==
    \/ \E t \in TaskIds : \E chk \in CheckOutcomes(t) : \E iter \in IterOrders :
           DrainAcquire(t, chk, iter)
    \/ \E b \in Blocks : \E st \in ReleaseStatuses : \E iter \in IterOrders :
           DrainRelease(b, st, iter)

\* the caller keeps going as long as a task is ready or a block is in flight
DrainSpec == Init /\ [][DrainNext]_vars /\ WF_vars(DrainNext)

\* C20 Drain to completion: a caller that only acquires from ready tasks and
\* releases what it holds with SUCCESS or FAILED comes to rest (no task ready,
\* no block in flight) only with every task done.
DrainToCompletion ==
    (get_ready_tasks(Sched) = {} /\ InFlight = {}) =>
        \A t \in TaskIds : is_done(task_states[t])

====
